---- MODULE Spec2Model ----
(***************************************************************************)
(* Fixed-income valuation library (curves.py, bond_pricer.py,              *)
(* asset_swap.py, swap_pricer.py, xccy_swap_pricer.py) as a state machine. *)
(*                                                                         *)
(* State: the process-wide evaluation date (ql.Settings.instance()         *)
(* .evaluationDate), the bond object handed to the bond and asset-swap     *)
(* operations, the value returned by the operation in progress, and the    *)
(* position of two worker threads running valuations side by side.         *)
(*                                                                         *)
(* Numbers: Python floats are modelled as exact rationals <<n, d>> in      *)
(* lowest terms, so a tolerance in a property is decided up to             *)
(* floating-point rounding.  Dates are day numbers of a calendar with      *)
(* twelve months of 31 and 30 days alternating; day 0 is a Monday.         *)
(***************************************************************************)
EXTENDS Integers, Sequences, FiniteSets, TLC

VARIABLES evaluationDate, bond, result, threads

vars == <<evaluationDate, bond, result, threads>>

-----------------------------------------------------------------------------
(* Exact rational arithmetic standing for float arithmetic.                *)

Abs(x) == IF x < 0 THEN -x ELSE x

Min(a, b) == IF a < b THEN a ELSE b

Max(a, b) == IF a < b THEN b ELSE a

RECURSIVE GCD(_, _)
GCD(a, b) == IF b = 0 THEN a ELSE GCD(b, a % b)

Norm(n, d) ==
    LET g == GCD(Abs(n), Abs(d))
        s == IF d < 0 THEN -1 ELSE 1
    IN  <<(s * n) \div g, (s * d) \div g>>

Rat(n) == <<n, 1>>

Frac(n, d) == Norm(n, d)

Zero == Rat(0)

RNeg(x) == <<-x[1], x[2]>>

RAdd(x, y) ==
    LET g == GCD(x[2], y[2])
    IN  Norm(x[1] * (y[2] \div g) + y[1] * (x[2] \div g), (x[2] \div g) * y[2])

RSub(x, y) == RAdd(x, RNeg(y))

RMul(x, y) ==
    LET g1 == GCD(Abs(x[1]), y[2])
        g2 == GCD(Abs(y[1]), x[2])
    IN  Norm((x[1] \div g1) * (y[1] \div g2), (x[2] \div g2) * (y[2] \div g1))

\* x / y for y # 0 (a float division by zero raises ZeroDivisionError: the
\* callers test for it before dividing)
RDiv(x, y) == RMul(x, Norm(y[2], y[1]))

RLt(x, y) == RSub(x, y)[1] < 0

RLe(x, y) == RSub(x, y)[1] <= 0

RAbs(x) == <<Abs(x[1]), x[2]>>

RECURSIVE DivPow10(_, _)
DivPow10(d, k) == IF k = 0 THEN d ELSE DivPow10(d \div 10, k - 1)

\* |x| > 10^-k, without forming 10^k: n/d > 10^-k iff n > floor(d / 10^k)
ExceedsTol(x, k) == Abs(x[1]) > DivPow10(x[2], k)

RECURSIVE RSum(_)
RSum(s) == IF s = <<>> THEN Zero ELSE RAdd(s[1], RSum(Tail(s)))

-----------------------------------------------------------------------------
(* Calendar, schedule and day-count services of the library (ql.Calendar,  *)
(* ql.Schedule, ql.DayCounter), as the source calls them.                  *)

MonthLen(m) == IF m % 2 = 1 THEN 31 ELSE 30

MonthOffset(m) == 30 * (m - 1) + (m \div 2)

MkDate(y, m, d) == 366 * y + MonthOffset(m) + d - 1

YearOf(t) == t \div 366

MonthOf(t) ==
    CHOOSE m \in 1..12 :
        /\ MonthOffset(m) <= t % 366
        /\ t % 366 < MonthOffset(m) + MonthLen(m)

DayOf(t) == (t % 366) - MonthOffset(MonthOf(t)) + 1

\* ql.TARGET() and ql.UnitedStates(FederalReserve): weekends plus the fixed
\* holidays of each calendar and, in the United States, Martin Luther
\* King's birthday on the third Monday of January
IsHoliday(cal, t) ==
    LET md == <<MonthOf(t), DayOf(t)>>
    IN  \/ t % 7 \in {5, 6}
        \/ /\ cal = "TARGET"
           /\ md \in {<<1, 1>>, <<5, 1>>, <<12, 25>>, <<12, 26>>}
        \/ /\ cal = "US"
           /\ \/ md \in {<<1, 1>>, <<6, 19>>, <<7, 4>>, <<11, 11>>, <<12, 25>>}
              \/ md[1] = 1 /\ md[2] \in 15..21 /\ t % 7 = 0

IsBusinessDay(cal, t) == ~IsHoliday(cal, t)

RECURSIVE NextBusinessDay(_, _)
NextBusinessDay(cal, t) ==
    IF IsBusinessDay(cal, t) THEN t ELSE NextBusinessDay(cal, t + 1)

RECURSIVE PrevBusinessDay(_, _)
PrevBusinessDay(cal, t) ==
    IF IsBusinessDay(cal, t) THEN t ELSE PrevBusinessDay(cal, t - 1)

\* Calendar.adjust(date, convention)
Adjust(cal, t, conv) ==
    LET f == NextBusinessDay(cal, t)
    IN  IF conv = "ModifiedFollowing" /\ MonthOf(f) # MonthOf(t)
        THEN PrevBusinessDay(cal, t)
        ELSE f

\* Calendar.advance(date, Period(n, Days)): n business days forward
RECURSIVE AdvanceDays(_, _, _)
AdvanceDays(cal, t, n) ==
    IF n = 0 THEN Adjust(cal, t, "Following")
    ELSE IF n = 1 THEN NextBusinessDay(cal, t + 1)
    ELSE AdvanceDays(cal, NextBusinessDay(cal, t + 1), n - 1)

\* date + n months on the unadjusted calendar (day of month capped)
AddMonths(t, n) ==
    LET total == 12 * YearOf(t) + (MonthOf(t) - 1) + n
        m == (total % 12) + 1
    IN  MkDate(total \div 12, m, Min(DayOf(t), MonthLen(m)))

\* Calendar.advance(date, Period(n, Months | Years)), convention Following
AdvanceMonths(cal, t, n) == Adjust(cal, AddMonths(t, n), "Following")

\* ql.Schedule(effective, termination, tenor, calendar, ModifiedFollowing,
\* ModifiedFollowing, DateGeneration.Backward, False): the unadjusted dates
\* walked back from the termination date, then the effective date in front
RECURSIVE BackwardDates(_, _, _, _, _)
BackwardDates(effective, termination, months, cal, acc) ==
    LET temp == AddMonths(termination, -(Len(acc)) * months)
        same(a, b) == Adjust(cal, a, "ModifiedFollowing")
                        = Adjust(cal, b, "ModifiedFollowing")
    IN  IF temp < effective
        THEN IF same(acc[1], effective) THEN acc ELSE <<effective>> \o acc
        ELSE BackwardDates(effective, termination, months, cal,
                           IF same(acc[1], temp) THEN acc ELSE <<temp>> \o acc)

DropDuplicates(s) ==
    LET n == Len(s)
        a == IF n >= 2 /\ s[n - 1] >= s[n]
             THEN SubSeq(s, 1, n - 2) \o <<s[n]>> ELSE s
    IN  IF Len(a) >= 2 /\ a[2] <= a[1]
        THEN <<a[1]>> \o SubSeq(a, 3, Len(a)) ELSE a

\* The schedule's dates; <<>> stands for the library's error
\* "effective date later than or equal to termination date"
Schedule(effective, termination, months, cal) ==
    IF effective >= termination THEN <<>>
    ELSE LET raw == BackwardDates(effective, termination, months, cal,
                                  <<termination>>)
         IN  DropDuplicates(
                 [i \in 1..Len(raw) |-> Adjust(cal, raw[i], "ModifiedFollowing")])

\* DayCounter.yearFraction(d1, d2)
YearFraction(dc, d1, d2) ==
    CASE dc = "Actual360" -> Frac(d2 - d1, 360)
      [] dc = "Actual365Fixed" -> Frac(d2 - d1, 365)
      [] dc = "Thirty360" ->
            LET dd1 == Min(DayOf(d1), 30)
                dd2 == IF DayOf(d2) = 31 /\ dd1 = 30 THEN 30 ELSE DayOf(d2)
            IN  Frac(360 * (YearOf(d2) - YearOf(d1))
                       + 30 * (MonthOf(d2) - MonthOf(d1)) + (dd2 - dd1), 360)

-----------------------------------------------------------------------------
(* Inputs.  The curves are snapshots bootstrapped on RefDate; the values   *)
(* below are the arguments the operations are called with.                 *)

\* Python None (an omitted evaluation_date)
None == -1

\* 16 January of year 1, a Thursday: a swap traded on it starts on a Monday
RefDate == MkDate(1, 1, 16)

\* RefDate, and the day two business days before the bond's coupon date
EvalDates == {RefDate, MkDate(1, 3, 11)}

MaxTenorYears == 2

\* the tenors the swaps are priced with; 0 is a swap that ends on its start
TenorYears == 0..MaxTenorYears

Curves == {"EUR", "USD"}

\* YieldTermStructureHandle.discount(date): a positive, non-increasing
\* curve, one step each 30 days from the reference date; the USD curve has
\* one step more, four days after the reference date, so that it tells
\* 20 January from 21 January.  "Steep" is a curve of rates so high that
\* the discount factor, a double, is 0.0 from the fourth step on.
discount(curve, t) ==
    LET m == (t - RefDate) \div 30
        u == m + (IF t > RefDate + 4 THEN 1 ELSE 0)
    IN  CASE curve = "EUR" -> Frac(240 - m, 240)
          [] curve = "USD" -> Frac(120 - u, 120)
          [] curve = "Steep" -> IF m < 3 THEN Frac(4 - m, 4) ELSE Zero

-----------------------------------------------------------------------------
(* xccy_swap_pricer.py                                                     *)

Raise(e) == [error |-> e]

IsError(out) == "error" \in DOMAIN out

\* a leg's coupon periods: <<start, end>> for i in range(1, len(schedule))
Periods(schedule) ==
    [i \in 1..(Len(schedule) - 1) |-> <<schedule[i], schedule[i + 1]>>]

\* the exchanges with the signs reversed: +notional at the effective date,
\* -notional at maturity
WithNotionalExchangeReversed(coupons, notional, effective_date, maturity_date, include_notional_exchange) ==
    (IF include_notional_exchange
     THEN <<<<effective_date, notional>>>> ELSE <<>>)
    \o coupons
    \o (IF include_notional_exchange
        THEN <<<<maturity_date, RNeg(notional)>>>> ELSE <<>>)

\* the notional exchanges around a leg's coupons: -notional at the
\* effective date, +notional at maturity
WithNotionalExchange(coupons, notional, effective_date, maturity_date, include_notional_exchange) ==
    (IF include_notional_exchange
     THEN <<<<effective_date, RNeg(notional)>>>> ELSE <<>>)
    \o coupons
    \o (IF include_notional_exchange
        THEN <<<<maturity_date, notional>>>> ELSE <<>>)

\* the coupon loop of _build_fixed_leg_cashflows over the periods P
FixedCoupons(P, notional, fixed_rate, day_count) ==
    [i \in 1..Len(P) |->
       <<P[i][2], RMul(RMul(notional, fixed_rate),
                       YearFraction(day_count, P[i][1], P[i][2]))>>]

_build_fixed_leg_cashflows(notional, fixed_rate, effective_date, maturity_date, frequency, calendar, day_count, include_notional_exchange) ==
    WithNotionalExchange(
        FixedCoupons(Periods(Schedule(effective_date, maturity_date, frequency,
                                      calendar)),
                     notional, fixed_rate, day_count),
        notional, effective_date, maturity_date, include_notional_exchange)

\* float_index.tenor() in months and float_index.dayCounter()
IndexTenor(index) == IF index = "Euribor6M" THEN 6 ELSE 3

IndexDayCounter(index) == "Actual360"

\* the coupon with the spread left out: notional * forward * tau
FloatingPaymentForwardOnly(notional, spread, tau, df_start, df_end) ==
    RMul(RMul(notional, RDiv(RSub(RDiv(df_start, df_end), Rat(1)), tau)), tau)

\* one floating coupon: notional * (forward + spread) * tau, the forward
\* implied by the curve over the period
FloatingPayment(notional, spread, tau, df_start, df_end) ==
    RMul(RMul(notional,
              RAdd(RDiv(RSub(RDiv(df_start, df_end), Rat(1)), tau), spread)),
         tau)

\* the coupon loop of _build_floating_leg_cashflows over the periods P
FloatingCoupons(P, notional, spread, float_index, discount_curve) ==
    [i \in 1..Len(P) |->
       <<P[i][2],
         FloatingPayment(notional, spread,
                         YearFraction(IndexDayCounter(float_index),
                                      P[i][1], P[i][2]),
                         discount(discount_curve, P[i][1]),
                         discount(discount_curve, P[i][2]))>>]

_build_floating_leg_cashflows(notional, spread, effective_date, maturity_date, float_index, calendar, discount_curve, include_notional_exchange) ==
    WithNotionalExchange(
        FloatingCoupons(Periods(Schedule(effective_date, maturity_date,
                                         IndexTenor(float_index), calendar)),
                        notional, spread, float_index, discount_curve),
        notional, effective_date, maturity_date, include_notional_exchange)

\* XCCYLegDetail from the cashflows and their discount factors
XCCYLegDetail(currency_label, cashflows, dfs) ==
    [currency |-> currency_label,
     dates |-> [i \in 1..Len(cashflows) |-> cashflows[i][1]],
     amounts |-> [i \in 1..Len(cashflows) |-> cashflows[i][2]],
     discount_factors |-> dfs,
     present_values |-> [i \in 1..Len(cashflows) |->
                           RMul(cashflows[i][2], dfs[i])],
     pv_total |-> RSum([i \in 1..Len(cashflows) |->
                          RMul(cashflows[i][2], dfs[i])])]

\* the leg valued on the domestic (EUR) curve whatever its currency
_pv_cashflows_on_domestic(cashflows, discount_curve, currency_label) ==
    XCCYLegDetail(currency_label, cashflows,
                  [i \in 1..Len(cashflows) |->
                     discount("EUR", cashflows[i][1])])

_pv_cashflows(cashflows, discount_curve, currency_label) ==
    XCCYLegDetail(currency_label, cashflows,
                  [i \in 1..Len(cashflows) |->
                     discount(discount_curve, cashflows[i][1])])

\* XCCYSwapResults: npv_domestic = foreign PV * spot - domestic PV
XCCYSwapResults(swap_type, a, dom_detail, for_detail, fair) ==
    [swap_type |-> swap_type,
     npv_domestic |-> RSub(RMul(for_detail.pv_total, a.spot_fx),
                           dom_detail.pv_total),
     npv_foreign |-> RDiv(RSub(RMul(for_detail.pv_total, a.spot_fx),
                               dom_detail.pv_total),
                          a.spot_fx),
     fair_value |-> fair,
     domestic_leg_pv |-> dom_detail.pv_total,
     foreign_leg_pv |-> for_detail.pv_total,
     foreign_leg_pv_in_domestic |-> RMul(for_detail.pv_total, a.spot_fx),
     spot_fx |-> a.spot_fx,
     domestic_notional |-> a.domestic_notional,
     foreign_notional |-> a.foreign_notional,
     domestic_leg_detail |-> dom_detail,
     foreign_leg_detail |-> for_detail]

\* effective and maturity dates of a swap traded on eval_date
EffectiveDate(calendar, eval_date) == AdvanceDays(calendar, eval_date, 2)

\* the maturity with the tenor raised to one year when it is not positive
MaturityDateAtLeastOneYear(calendar, effective, tenor_years) ==
    AdvanceMonths(calendar, effective, 12 * Max(tenor_years, 1))

MaturityDate(calendar, effective, tenor_years) ==
    AdvanceMonths(calendar, effective, 12 * tenor_years)

\* the difference between the two values left undivided by the rate
ImpliedAnnuityUndivided(pv_actual, pv_zero, actual_parameter) ==
    RSub(pv_actual, pv_zero)

\* the annuity of the fixed-rate solve (lines 333, 438), read off the
\* difference between the leg at the actual rate and the leg at zero
ImpliedAnnuity(pv_actual, pv_zero, actual_parameter) ==
    RDiv(RSub(pv_actual, pv_zero), actual_parameter)

\* the guarded division (lines 334-337, 439-442, 572-575)
FairValue(annuity, pv_zero, for_pv_in_dom) ==
    IF ExceedsTol(annuity, 10)
    THEN RDiv(RSub(for_pv_in_dom, pv_zero), annuity)
    ELSE Zero

\* the fair-value solve shared by the fixed-rate variants (lines 321-337,
\* 431-442)
FairFixedRate(pv_actual, pv_zero, actual_parameter, for_pv_in_dom) ==
    FairValue(ImpliedAnnuity(pv_actual, pv_zero, actual_parameter),
              pv_zero, for_pv_in_dom)

\* price_fixed_fixed_xccy_swap, steps 3-5: the results from the three
\* priced legs (actual domestic, foreign, domestic at a zero rate)
FixedFixedSolve(a, dom_detail, for_detail, dom_detail_zero) ==
    XCCYSwapResults("Fixed-Fixed", a, dom_detail, for_detail,
                    FairFixedRate(dom_detail.pv_total,
                                  dom_detail_zero.pv_total,
                                  a.domestic_fixed_rate,
                                  RMul(for_detail.pv_total, a.spot_fx)))

\* price_fixed_fixed_xccy_swap, steps 1-2: the legs between the dates.  The
\* schedule refuses effective >= maturity; the division by a zero
\* domestic_fixed_rate at line 333 raises ZeroDivisionError
FixedFixedLegs(a, effective, maturity) ==
    IF effective >= maturity THEN Raise("RuntimeError")
    ELSE IF a.domestic_fixed_rate = Zero THEN Raise("ZeroDivisionError")
    ELSE FixedFixedSolve(
             a,
             _pv_cashflows(
                 _build_fixed_leg_cashflows(
                     a.domestic_notional, a.domestic_fixed_rate,
                     effective, maturity, 12, "TARGET", "Thirty360", TRUE),
                 a.domestic_curve, "EUR"),
             _pv_cashflows(
                 _build_fixed_leg_cashflows(
                     a.foreign_notional, a.foreign_fixed_rate,
                     effective, maturity, 6, "US", "Thirty360", TRUE),
                 a.foreign_curve, "USD"),
             _pv_cashflows(
                 _build_fixed_leg_cashflows(
                     a.domestic_notional, Zero,
                     effective, maturity, 12, "TARGET", "Thirty360", TRUE),
                 a.domestic_curve, "EUR"))

FixedFixedDates(a, effective) ==
    FixedFixedLegs(a, effective,
                   MaturityDate("TARGET", effective, a.tenor_years))

\* price_fixed_fixed_xccy_swap from the line that reads the evaluation date
\* on: eval_date is what ql.Settings.instance().evaluationDate returned
FixedFixedBody(a, eval_date) ==
    FixedFixedDates(a, EffectiveDate("TARGET", eval_date))

FixedFloatingSolve(a, dom_detail, for_detail, dom_detail_zero) ==
    XCCYSwapResults("Fixed-Floating", a, dom_detail, for_detail,
                    FairFixedRate(dom_detail.pv_total,
                                  dom_detail_zero.pv_total,
                                  a.domestic_fixed_rate,
                                  RMul(for_detail.pv_total, a.spot_fx)))

FixedFloatingLegs(a, effective, maturity) ==
    IF effective >= maturity THEN Raise("RuntimeError")
    ELSE IF a.domestic_fixed_rate = Zero THEN Raise("ZeroDivisionError")
    ELSE FixedFloatingSolve(
             a,
             _pv_cashflows(
                 _build_fixed_leg_cashflows(
                     a.domestic_notional, a.domestic_fixed_rate,
                     effective, maturity, 12, "TARGET", "Thirty360", TRUE),
                 a.domestic_curve, "EUR"),
             _pv_cashflows(
                 _build_floating_leg_cashflows(
                     a.foreign_notional, a.foreign_float_spread,
                     effective, maturity, "USDLibor3M", "US",
                     a.foreign_curve, TRUE),
                 a.foreign_curve, "USD"),
             _pv_cashflows(
                 _build_fixed_leg_cashflows(
                     a.domestic_notional, Zero,
                     effective, maturity, 12, "TARGET", "Thirty360", TRUE),
                 a.domestic_curve, "EUR"))

FixedFloatingDates(a, effective) ==
    FixedFloatingLegs(a, effective,
                      MaturityDate("TARGET", effective, a.tenor_years))

\* price_fixed_floating_xccy_swap from the line that reads the evaluation
\* date on (foreign_float_index defaults to USD LIBOR 3M)
FixedFloatingBody(a, eval_date) ==
    FixedFloatingDates(a, EffectiveDate("TARGET", eval_date))

\* the annuity with each period weighted by the discount factor of its
\* start date instead of its payment date
AnnuityAtStart(P, notional, day_count, discount_curve) ==
    RSum([i \in 1..Len(P) |->
            RMul(RMul(notional, YearFraction(day_count, P[i][1], P[i][2])),
                 discount(discount_curve, P[i][1]))])

\* sum of notional * tau * DF(end) over the periods P
Annuity(P, notional, day_count, discount_curve) ==
    RSum([i \in 1..Len(P) |->
            RMul(RMul(notional, YearFraction(day_count, P[i][1], P[i][2])),
                 discount(discount_curve, P[i][2]))])

\* the annuity with the repriced difference left undivided by the spread
FloatFloatAnnuityUndivided(a, effective, maturity, pv_actual, pv_flat) ==
    IF ExceedsTol(a.domestic_float_spread, 12)
    THEN RSub(pv_actual, pv_flat)
    ELSE Annuity(Periods(Schedule(effective, maturity,
                                  IndexTenor("Euribor6M"), "TARGET")),
                 a.domestic_notional, IndexDayCounter("Euribor6M"),
                 a.domestic_curve)

\* the annuity of price_float_float_xccy_swap (lines 553-570): from the
\* repriced leg when the spread is not zero, summed directly when it is
FloatFloatAnnuity(a, effective, maturity, pv_actual, pv_flat) ==
    IF ExceedsTol(a.domestic_float_spread, 12)
    THEN RDiv(RSub(pv_actual, pv_flat), a.domestic_float_spread)
    ELSE Annuity(Periods(Schedule(effective, maturity,
                                  IndexTenor("Euribor6M"), "TARGET")),
                 a.domestic_notional, IndexDayCounter("Euribor6M"),
                 a.domestic_curve)

\* the guarded division of lines 572-575
FairBasis(annuity_approx, pv_flat, for_pv_in_dom) ==
    FairValue(annuity_approx, pv_flat, for_pv_in_dom)

FloatFloatSolve(a, effective, maturity, dom_detail, for_detail, dom_detail_flat) ==
    XCCYSwapResults("Floating-Floating (Basis)", a, dom_detail, for_detail,
                    FairBasis(FloatFloatAnnuity(a, effective, maturity,
                                                dom_detail.pv_total,
                                                dom_detail_flat.pv_total),
                              dom_detail_flat.pv_total,
                              RMul(for_detail.pv_total, a.spot_fx)))

FloatFloatLegs(a, effective, maturity) ==
    IF effective >= maturity THEN Raise("RuntimeError")
    ELSE FloatFloatSolve(
             a, effective, maturity,
             _pv_cashflows(
                 _build_floating_leg_cashflows(
                     a.domestic_notional, a.domestic_float_spread,
                     effective, maturity, "Euribor6M", "TARGET",
                     a.domestic_curve, TRUE),
                 a.domestic_curve, "EUR"),
             _pv_cashflows(
                 _build_floating_leg_cashflows(
                     a.foreign_notional, a.foreign_float_spread,
                     effective, maturity, "USDLibor3M", "US",
                     a.foreign_curve, TRUE),
                 a.foreign_curve, "USD"),
             _pv_cashflows(
                 _build_floating_leg_cashflows(
                     a.domestic_notional, Zero,
                     effective, maturity, "Euribor6M", "TARGET",
                     a.domestic_curve, TRUE),
                 a.domestic_curve, "EUR"))

FloatFloatDates(a, effective) ==
    FloatFloatLegs(a, effective,
                   MaturityDate("TARGET", effective, a.tenor_years))

\* price_float_float_xccy_swap from the line that reads the evaluation date
\* on (the indexes default to Euribor 6M and USD LIBOR 3M)
FloatFloatBody(a, eval_date) ==
    FloatFloatDates(a, EffectiveDate("TARGET", eval_date))

-----------------------------------------------------------------------------
(* bond_pricer.py: the bond object (ql.FixedRateBond)                      *)

NoEngine == "NoEngine"

\* build_fixed_rate_bond with its defaults: annual coupons, TARGET,
\* 30/360, ModifiedFollowing, two settlement days, redemption 100
build_fixed_rate_bond(face_value, issue_date, maturity_date, coupon_rate) ==
    [face_value |-> face_value,
     issue_date |-> issue_date,
     maturity_date |-> maturity_date,
     coupon_rate |-> coupon_rate,
     settlement_days |-> 2,
     redemption |-> Rat(100),
     engine |-> NoEngine]

BondSchedule(b) == Schedule(b.issue_date, b.maturity_date, 12, "TARGET")

\* the bond's coupons over the periods P, then the redemption
BondLeg(b, P) ==
    [i \in 1..Len(P) |->
       [date |-> P[i][2],
        amount |-> RMul(RMul(b.face_value, b.coupon_rate),
                        YearFraction("Thirty360", P[i][1], P[i][2]))]]
    \o <<[date |-> P[Len(P)][2],
          amount |-> RMul(b.face_value, RDiv(b.redemption, Rat(100)))]>>

\* bond.cashflows()
bond_cashflows(b) == BondLeg(b, Periods(BondSchedule(b)))

Last(s) == s[Len(s)]

\* bond.maturityDate() and bond.notional()
bond_maturityDate(b) == Last(BondSchedule(b))

bond_notional(b) == b.face_value

\* bond.settlementDate(): read off the process-wide evaluation date
bond_settlementDate(b, eval_date) ==
    Max(AdvanceDays("TARGET", eval_date, b.settlement_days), b.issue_date)

\* the accrued amount per 100 of face at the settlement date, on the
\* coupon period P[i]
AccruedOn(b, settlement, period) ==
    IF settlement <= period[1] THEN Zero
    ELSE RMul(RMul(Rat(100), b.coupon_rate),
              YearFraction("Thirty360", period[1], settlement))

\* the coupon whose payment is the first after settlement
AccruedAt(b, settlement, P) ==
    IF \A i \in 1..Len(P) : P[i][2] <= settlement THEN Zero
    ELSE AccruedOn(b, settlement,
                   P[CHOOSE j \in 1..Len(P) :
                       /\ P[j][2] > settlement
                       /\ \A k \in 1..Len(P) : P[k][2] > settlement => j <= k])

\* bond.accruedAmount()
bond_accruedAmount(b, eval_date) ==
    AccruedAt(b, bond_settlementDate(b, eval_date), Periods(BondSchedule(b)))

\* the cashflows paid after a date, and their value on a curve
After(cfs, date) == SelectSeq(cfs, LAMBDA cf : cf.date > date)

PresentValue(cfs, discount_curve) ==
    RSum([i \in 1..Len(cfs) |->
            RMul(cfs[i].amount, discount(discount_curve, cfs[i].date))])

\* bond.dirtyPrice() under DiscountingBondEngine: the cashflows after
\* settlement, discounted to settlement, per 100 of face
bond_dirtyPrice(b, discount_curve, settlement) ==
    RMul(RDiv(PresentValue(After(bond_cashflows(b), settlement),
                           discount_curve),
              discount(discount_curve, settlement)),
         RDiv(Rat(100), bond_notional(b)))

\* the results with the accrued interest left in the clean price
BondResultsCleanIsDirty(dirty, accrued) ==
    [clean_price |-> dirty,
     dirty_price |-> dirty,
     accrued_interest |-> accrued]

BondResults(dirty, accrued) ==
    [clean_price |-> RSub(dirty, accrued),
     dirty_price |-> dirty,
     accrued_interest |-> accrued]

\* price_bond after the evaluation date is set and the engine attached
BondBody(b, discount_curve, eval_date) ==
    BondResults(bond_dirtyPrice(b, discount_curve,
                                bond_settlementDate(b, eval_date)),
                bond_accruedAmount(b, eval_date))

-----------------------------------------------------------------------------
(* asset_swap.py                                                           *)

\* the value of <<date, amount>> payments on a curve
LegPV(payments, discount_curve) ==
    RSum([i \in 1..Len(payments) |->
            RMul(payments[i][2], discount(discount_curve, payments[i][1]))])

\* the upfront payment of a par asset swap: (dirty - 100)% of the notional
Upfront(dirtyPrice, N) == RMul(RDiv(RSub(dirtyPrice, Rat(100)), Rat(100)), N)

\* what DiscountingSwapEngine leaves on the swap:
\* fairSpread = spread - NPV / (legBPS(1) / 1bp), the spread being 0
SwapValues(fixedNPV, floatNPV, floatBPS) ==
    [fairSpread |-> RSub(Zero, RDiv(RAdd(fixedNPV, floatNPV),
                                    RMul(floatBPS, Rat(10000)))),
     NPV |-> RAdd(fixedNPV, floatNPV),
     legNPV0 |-> fixedNPV,
     legNPV1 |-> floatNPV]

\* the legs of the par asset swap between the bond's settlement
\* (upfrontDate) and its maturity (finalDate): the bond leg is paid; the
\* floating leg (upfront, Ibor coupons at spread 0, back payment of the
\* notional) is received
AssetSwapLegs(b, dirtyPrice, float_index, discount_curve, upfrontDate, finalDate) ==
    SwapValues(
        RNeg(PresentValue(After(bond_cashflows(b), upfrontDate),
                          discount_curve)),
        LegPV(<<<<upfrontDate, Upfront(dirtyPrice, bond_notional(b))>>>>
              \o _build_floating_leg_cashflows(
                     bond_notional(b), Zero, upfrontDate, finalDate,
                     float_index, "TARGET", discount_curve, FALSE)
              \o <<<<finalDate, bond_notional(b)>>>>,
              discount_curve),
        RMul(Frac(1, 10000),
             Annuity(Periods(Schedule(upfrontDate, finalDate,
                                      IndexTenor(float_index), "TARGET")),
                     bond_notional(b), IndexDayCounter(float_index),
                     discount_curve)))

\* ql.AssetSwap(True, bond, clean, index, 0.0, ql.Schedule(), dc, True)
\* under DiscountingSwapEngine
AssetSwap(b, bond_clean_price, float_index, discount_curve, eval_date) ==
    AssetSwapLegs(b, RAdd(bond_clean_price, bond_accruedAmount(b, eval_date)),
                  float_index, discount_curve,
                  bond_settlementDate(b, eval_date), bond_maturityDate(b))

\* AssetSwapResults
AssetSwapResults(bond_dirty_price, bond_clean_price, asset_swap) ==
    [asset_swap_spread |-> RMul(asset_swap.fairSpread, Rat(10000)),
     fair_spread |-> asset_swap.fairSpread,
     bond_clean_price |-> bond_clean_price,
     bond_dirty_price |-> bond_dirty_price,
     npv |-> asset_swap.NPV,
     fixed_leg_npv |-> asset_swap.legNPV0,
     floating_leg_npv |-> asset_swap.legNPV1]

ParParClean(b, bond_dirty_price, bond_clean_price, discount_curve, eval_date) ==
    AssetSwapResults(bond_dirty_price, bond_clean_price,
                     AssetSwap(b, bond_clean_price, "Euribor6M",
                               discount_curve, eval_date))

\* price_par_par_asset_swap after the evaluation date is set
\* (float_index defaults to Euribor 6M)
ParParBody(b, bond_dirty_price, discount_curve, eval_date) ==
    IF bond_settlementDate(b, eval_date) >= bond_maturityDate(b)
    THEN Raise("RuntimeError")
    ELSE ParParClean(b, bond_dirty_price,
                     RSub(bond_dirty_price, bond_accruedAmount(b, eval_date)),
                     discount_curve, eval_date)

\* the filter with the comparison relaxed: a cashflow paid on the settlement
\* date is kept too
RemainingCashflowsFromSettlement(cfs, settlement) ==
    SelectSeq(cfs, LAMBDA cf : ~(cf.date < settlement))

\* Step 1 of the replication (lines 227-239): the cashflows kept
RemainingCashflows(cfs, settlement) ==
    SelectSeq(cfs, LAMBDA cf : ~(cf.date <= settlement))

CashflowDetail(cf, df) ==
    [date |-> cf.date,
     amount |-> cf.amount,
     discount_factor |-> df,
     present_value |-> RMul(cf.amount, df)]

CashflowDetails(kept, discount_curve) ==
    [i \in 1..Len(kept) |->
       CashflowDetail(kept[i], discount(discount_curve, kept[i].date))]

\* Step 2 of the replication (lines 245-273): the floating periods
FloatingPeriod(period, tau, df_end) ==
    [start |-> period[1],
     end |-> period[2],
     year_fraction |-> tau,
     discount_factor |-> df_end,
     contribution |-> RMul(tau, df_end)]

FloatingPeriods(P, discount_curve, df_settle) ==
    [i \in 1..Len(P) |->
       FloatingPeriod(P[i],
                      YearFraction(IndexDayCounter("Euribor6M"),
                                   P[i][1], P[i][2]),
                      RDiv(discount(discount_curve, P[i][2]), df_settle))]

\* the solve with the numerator reversed: dirty price minus bond PV
SolveSpreadReversed(bond_pv_settle, bond_dirty_price, face, annuity) ==
    RDiv(RSub(bond_dirty_price, bond_pv_settle), RMul(face, annuity))

\* Step 3 of the replication (line 279)
SolveSpread(bond_pv_settle, bond_dirty_price, face, annuity) ==
    RDiv(RSub(bond_pv_settle, bond_dirty_price), RMul(face, annuity))

\* ReplicatedAssetSwapResults
ReplicatedAssetSwapResults(spread, bond_pv_settle, bond_dirty_price, annuity, cf_details, fp_details) ==
    [asset_swap_spread |-> RMul(spread, Rat(10000)),
     fair_spread |-> spread,
     bond_pv_at_swap_curve |-> bond_pv_settle,
     market_dirty_price |-> bond_dirty_price,
     floating_annuity |-> annuity,
     bond_cashflows |-> cf_details,
     floating_periods |-> fp_details]

ReplicateSolve(bond_pv_settle, bond_dirty_price, face, annuity, cf_details, fp_details) ==
    IF RMul(face, annuity) = Zero THEN Raise("ZeroDivisionError")
    ELSE ReplicatedAssetSwapResults(
             SolveSpread(bond_pv_settle, bond_dirty_price, face, annuity),
             bond_pv_settle, bond_dirty_price, annuity, cf_details,
             fp_details)

ReplicateSums(bond_dirty_price, face, df_settle, cf_details, fp_details) ==
    ReplicateSolve(
        RDiv(RSum([i \in 1..Len(cf_details) |-> cf_details[i].present_value]),
             df_settle),
        bond_dirty_price, face,
        RSum([i \in 1..Len(fp_details) |-> fp_details[i].contribution]),
        cf_details, fp_details)

ReplicateSteps(b, bond_dirty_price, discount_curve, settlement, maturity, df_settle) ==
    IF settlement >= maturity THEN Raise("RuntimeError")
    ELSE ReplicateSums(
             bond_dirty_price, bond_notional(b), df_settle,
             CashflowDetails(RemainingCashflows(bond_cashflows(b), settlement),
                             discount_curve),
             FloatingPeriods(Periods(Schedule(settlement, maturity, 6,
                                              "TARGET")),
                             discount_curve, df_settle))

ReplicateOn(b, bond_dirty_price, discount_curve, settlement) ==
    ReplicateSteps(b, bond_dirty_price, discount_curve, settlement,
                   bond_maturityDate(b), discount(discount_curve, settlement))

\* replicate_par_par_asset_swap after the evaluation date is set
ReplicateBody(b, bond_dirty_price, discount_curve, eval_date) ==
    ReplicateOn(b, bond_dirty_price, discount_curve,
                bond_settlementDate(b, eval_date))

-----------------------------------------------------------------------------
(* swap_pricer.py                                                          *)

\* the results with the fair rate read off the floating leg's BPS
IRSResultsFloatingBPS(a, legNPV0, legNPV1, legBPS0, legBPS1) ==
    [npv |-> RAdd(legNPV0, legNPV1),
     fair_rate |-> RSub(a.fixed_rate,
                        RDiv(RAdd(legNPV0, legNPV1),
                             RMul(legBPS1, Rat(10000)))),
     fair_spread |-> RSub(a.float_spread,
                          RDiv(RAdd(legNPV0, legNPV1),
                               RMul(legBPS1, Rat(10000)))),
     fixed_leg_npv |-> legNPV0,
     floating_leg_npv |-> legNPV1,
     fixed_leg_bps |-> legBPS0,
     floating_leg_bps |-> legBPS1,
     notional |-> a.notional,
     fixed_rate |-> a.fixed_rate,
     maturity_years |-> a.tenor_years,
     swap_type |-> a.swap_type]

\* IRSResults off ql.VanillaSwap under DiscountingSwapEngine:
\* fairRate = fixedRate - NPV / (legBPS(0) / 1bp), likewise fairSpread
IRSResults(a, legNPV0, legNPV1, legBPS0, legBPS1) ==
    [npv |-> RAdd(legNPV0, legNPV1),
     fair_rate |-> RSub(a.fixed_rate,
                        RDiv(RAdd(legNPV0, legNPV1),
                             RMul(legBPS0, Rat(10000)))),
     fair_spread |-> RSub(a.float_spread,
                          RDiv(RAdd(legNPV0, legNPV1),
                               RMul(legBPS1, Rat(10000)))),
     fixed_leg_npv |-> legNPV0,
     floating_leg_npv |-> legNPV1,
     fixed_leg_bps |-> legBPS0,
     floating_leg_bps |-> legBPS1,
     notional |-> a.notional,
     fixed_rate |-> a.fixed_rate,
     maturity_years |-> a.tenor_years,
     swap_type |-> a.swap_type]

\* the sign with the swap type ignored: every swap valued as a payer swap
PayerAlways(swap_type) == Rat(-1)

\* the sign of the fixed leg: paid by a Payer swap, received otherwise
Payer(swap_type) == IF swap_type = "Payer" THEN Rat(-1) ELSE Rat(1)

\* build_vanilla_swap: fixed leg annual 30/360, floating leg on the
\* index (Euribor 6M by default), both on TARGET
VanillaSwap(a, effective_date, maturity_date) ==
    IF effective_date >= maturity_date THEN Raise("RuntimeError")
    ELSE IRSResults(
             a,
             RMul(Payer(a.swap_type),
                  LegPV(_build_fixed_leg_cashflows(
                            a.notional, a.fixed_rate, effective_date,
                            maturity_date, 12, "TARGET", "Thirty360", FALSE),
                        a.discount_curve)),
             RMul(RNeg(Payer(a.swap_type)),
                  LegPV(_build_floating_leg_cashflows(
                            a.notional, a.float_spread, effective_date,
                            maturity_date, "Euribor6M", "TARGET",
                            a.discount_curve, FALSE),
                        a.discount_curve)),
             RMul(RMul(Payer(a.swap_type), Frac(1, 10000)),
                  Annuity(Periods(Schedule(effective_date, maturity_date, 12,
                                           "TARGET")),
                          a.notional, "Thirty360", a.discount_curve)),
             RMul(RMul(RNeg(Payer(a.swap_type)), Frac(1, 10000)),
                  Annuity(Periods(Schedule(effective_date, maturity_date, 6,
                                           "TARGET")),
                          a.notional, "Actual360", a.discount_curve)))

IRSDates(a, effective_date) ==
    VanillaSwap(a, effective_date,
                MaturityDate("TARGET", effective_date, a.tenor_years))

\* price_irs from the line of build_vanilla_swap that reads the evaluation
\* date on
IRSBody(a, eval_date) == IRSDates(a, EffectiveDate("TARGET", eval_date))

-----------------------------------------------------------------------------
(* curves.py                                                               *)

\* an Optional[list] argument: None, or a list of rate helpers
NoList == [is_none |-> TRUE, items |-> <<>>]

List(items) == [is_none |-> FALSE, items |-> items]

\* Python truthiness of an Optional[list]: None and [] are both false
Truthy(l) == ~l.is_none /\ l.items # <<>>

\* build_discount_curve refusing only two omitted lists: `is None` in
\* the place of the truth test
CurveBodyNoneOnly(evaluation_date, deposit_helpers, swap_helpers) ==
    IF deposit_helpers.is_none /\ swap_helpers.is_none
    THEN Raise("ValueError")
    ELSE [reference_date |-> evaluation_date,
          helpers |-> deposit_helpers.items \o swap_helpers.items]

\* build_discount_curve after the evaluation date is set: the non-empty
\* helper lists are joined and an empty result is refused
CurveBody(evaluation_date, deposit_helpers, swap_helpers) ==
    LET helpers == (IF Truthy(deposit_helpers) THEN deposit_helpers.items
                    ELSE <<>>)
                   \o (IF Truthy(swap_helpers) THEN swap_helpers.items
                       ELSE <<>>)
    IN  IF helpers = <<>> THEN Raise("ValueError")
        ELSE [reference_date |-> evaluation_date, helpers |-> helpers]

\* make_deposit_helper(rate, Period(months, Months)) and
\* make_swap_helper(rate, Period(years, Years)) with their defaults: two
\* fixing days, TARGET, ModifiedFollowing; deposits on Actual/360, swaps
\* with an annual 30/360 fixed leg against Euribor 6M
make_deposit_helper(rate, months) ==
    [kind |-> "deposit", rate |-> rate, months |-> months]

make_swap_helper(rate, years) ==
    [kind |-> "swap", rate |-> rate, months |-> 12 * years]

\* the dates a helper takes from the process-wide evaluation date: the spot
\* date its instrument starts on and the pillar date it matures on
HelperSpot(eval_date) == AdvanceDays("TARGET", eval_date, 2)

HelperPillar(h, eval_date) ==
    Adjust("TARGET", AddMonths(HelperSpot(eval_date), h.months),
           "ModifiedFollowing")

\* the interest periods of the helper's instrument and their day count
HelperPeriods(h, eval_date) ==
    IF h.kind = "deposit"
    THEN <<<<HelperSpot(eval_date), HelperPillar(h, eval_date)>>>>
    ELSE Periods(Schedule(HelperSpot(eval_date),
                          AddMonths(HelperSpot(eval_date), h.months),
                          12, "TARGET"))

HelperDayCount(h) == IF h.kind = "deposit" THEN "Actual360" ELSE "Thirty360"

\* Discount factors are kept per unit of the discount factor at the spot
\* date (the helpers' common start), so that each pillar's value is a
\* small fraction; curve.discount divides by the value kept for the
\* reference date.  Intermediate values are bound by membership in a
\* one-element set, so that each is evaluated once, before its use.
\*
\* Interpolation between nodes.  The library interpolates ln(discount) by a
\* monotonicity-preserving cubic; exponentials have no exact rational
\* value, so each stretch is stood for by the straight line through its two
\* nodes, which passes through the nodes and rises or falls on a stretch
\* exactly when the library's curve does.
Line(n1, n2, d) ==
    RAdd(n1.df,
         RMul(RSub(n2.df, n1.df), Frac(d - n1.date, n2.date - n1.date)))

\* the stretch of the nodes that d falls on (the nearest one outside them)
SegmentStart(nodes, d) ==
    CHOOSE k \in 1..(Len(nodes) - 1) :
        /\ k = 1 \/ nodes[k].date <= d
        /\ k = Len(nodes) - 1 \/ d < nodes[k + 1].date

LinearDiscount(nodes, d) ==
    IF Len(nodes) = 1 THEN nodes[1].df
    ELSE Line(nodes[SegmentStart(nodes, d)],
              nodes[SegmentStart(nodes, d) + 1], d)

\* the curve's first node, anchored one settlement lag late: on the spot
\* date of the helpers
FirstNodeAtSpot(reference_date, spot, first) ==
    [date |-> spot, df |-> Rat(1)]

\* ql.PiecewiseLogCubicDiscount(evaluation_date, ...): the curve's first
\* node is the reference date.  Its value is fixed by the first pillar:
\* the stretch from it to the first pillar passes through 1 at spot.
FirstNode(reference_date, spot, first) ==
    [date |-> reference_date,
     df |-> Line([date |-> spot, df |-> Rat(1)], first, reference_date)]

\* the nodes with a trial value at the next pillar
TrialNodes(nodes, reference_date, spot, trial) ==
    IF nodes = <<>> THEN <<FirstNode(reference_date, spot, trial), trial>>
    ELSE Append(nodes, trial)

\* the helper's interest with the year fraction left out: the quoted rate
\* taken as the interest of each period whatever its length
HelperInterestPerPeriod(h, P, nodes) ==
    RMul(h.rate,
         RSum([i \in 1..Len(P) |-> LinearDiscount(nodes, P[i][2])]))

\* the interest of the helper's instrument at its quoted rate: each
\* period's rate * yearFraction, valued at the period's end
HelperInterest(h, P, nodes) ==
    RMul(h.rate,
         RSum([i \in 1..Len(P) |->
                 RMul(YearFraction(HelperDayCount(h), P[i][1], P[i][2]),
                      LinearDiscount(nodes, P[i][2]))]))

\* the helper's pricing error on trial nodes: the value of one unit at the
\* start, less the interest at the quoted rate over the periods, less one
\* unit at the end (zero when the curve reprices the quote)
HelperError(h, P, nodes) ==
    CHOOSE error \in
        {RSub(RSub(at_start, interest), at_end) :
            at_start \in {LinearDiscount(nodes, P[1][1])},
            interest \in {HelperInterest(h, P, nodes)},
            at_end \in {LinearDiscount(nodes, P[Len(P)][2])}} : TRUE

\* the root of the pillar's error, which is linear in the trial discount
\* factor: from the error at 0 and the error at 1
LinearRoot(error_at_0, error_at_1) ==
    RDiv(error_at_0, RSub(error_at_0, error_at_1))

\* one step of the bootstrap: the nodes with the discount factor at the
\* helper's pillar that reprices its quote given the nodes already solved
SolvePillar(h, P, pillar, reference_date, nodes) ==
    CHOOSE solved \in
        {TrialNodes(nodes, reference_date, P[1][1],
                    [date |-> pillar,
                     df |-> LinearRoot(error_at_0, error_at_1)]) :
            error_at_0 \in
                {HelperError(h, P,
                             TrialNodes(nodes, reference_date, P[1][1],
                                        [date |-> pillar, df |-> Zero]))},
            error_at_1 \in
                {HelperError(h, P,
                             TrialNodes(nodes, reference_date, P[1][1],
                                        [date |-> pillar,
                                         df |-> Rat(1)]))}} : TRUE

\* the helpers in the order of their pillar dates
RECURSIVE InsertByPillar(_, _)
InsertByPillar(h, sorted) ==
    IF sorted = <<>> THEN <<h>>
    ELSE IF h.months < sorted[1].months THEN <<h>> \o sorted
    ELSE <<sorted[1]>> \o InsertByPillar(h, Tail(sorted))

RECURSIVE SortByPillar(_)
SortByPillar(helpers) ==
    IF helpers = <<>> THEN <<>>
    ELSE InsertByPillar(helpers[1], SortByPillar(Tail(helpers)))

\* the bootstrap: the pillars solved one after the other, each on the
\* nodes before it, up to the first pillar left without a positive
\* discount factor
RECURSIVE Bootstrap(_, _, _, _)
Bootstrap(helpers, eval_date, reference_date, nodes) ==
    IF helpers = <<>> \/ (nodes # <<>> /\ nodes[Len(nodes)].df[1] <= 0)
    THEN nodes
    ELSE CHOOSE all \in
             {Bootstrap(Tail(helpers), eval_date, reference_date,
                        SolvePillar(helpers[1], P, pillar, reference_date,
                                    nodes)) :
                 P \in {HelperPeriods(helpers[1], eval_date)},
                 pillar \in {HelperPillar(helpers[1], eval_date)}} : TRUE

\* the nodes of a curve returned by build_discount_curve.  The curve is
\* bootstrapped when it is first asked for a value, its helpers dated from
\* the process-wide evaluation date read then.
CurveNodes(curve, eval_date) ==
    CHOOSE nodes \in {Bootstrap(SortByPillar(curve.helpers), eval_date,
                                reference_date, <<>>) :
                         reference_date \in {curve.reference_date}} : TRUE

\* curve.discount(d) on a curve returned by build_discount_curve; the
\* bootstrap fails when a pillar has no positive discount factor
CurveDiscountOn(nodes, d) ==
    IF \E i \in 1..Len(nodes) : nodes[i].df[1] <= 0
    THEN Raise("RuntimeError")
    ELSE RDiv(LinearDiscount(nodes, d), nodes[1].df)

CurveDiscount(curve, d, eval_date) ==
    CurveDiscountOn(CurveNodes(curve, eval_date), d)

-----------------------------------------------------------------------------
(* The arguments the operations are called with                            *)

OptionalDates == {None} \cup EvalDates

Faces == {Rat(100), Rat(200)}

Bonds == {build_fixed_rate_bond(f, MkDate(0, 3, 15), MkDate(2, 3, 15),
                                Frac(1, 25)) : f \in Faces}

\* the market dirty price and the bump grid of main.py
MarketPrice == Rat(98)

Bumps == {Rat(-2), Rat(-1), Frac(-1, 2), Zero, Frac(1, 2), Rat(1), Rat(2)}

DirtyPrices == {RAdd(MarketPrice, bump) : bump \in Bumps}

AssetSwapArgs ==
    [bond_dirty_price : DirtyPrices, discount_curve : Curves,
     evaluation_date : OptionalDates]

\* the replication is also asked for on the steep curve
ReplicateArgs ==
    AssetSwapArgs
        \cup [bond_dirty_price : {MarketPrice}, discount_curve : {"Steep"},
              evaluation_date : OptionalDates]

Notionals == {Zero, Rat(100)}

FixedRates == {Zero, Frac(3, 100)}

Spreads == {Zero, Frac(-3, 2000)}

SpotFX == {Frac(10, 11)}

FixedFixedArgs ==
    [domestic_notional : Notionals, foreign_notional : {Rat(110)},
     domestic_fixed_rate : FixedRates, foreign_fixed_rate : {Frac(1, 25)},
     tenor_years : TenorYears, domestic_curve : {"EUR"},
     foreign_curve : Curves, spot_fx : SpotFX,
     evaluation_date : OptionalDates]

FixedFloatingArgs ==
    [domestic_notional : Notionals, foreign_notional : {Rat(110)},
     domestic_fixed_rate : FixedRates, foreign_float_spread : Spreads,
     tenor_years : TenorYears, domestic_curve : {"EUR"},
     foreign_curve : {"USD"}, spot_fx : SpotFX,
     evaluation_date : OptionalDates]

FloatFloatArgs ==
    [domestic_notional : Notionals, foreign_notional : {Rat(110)},
     domestic_float_spread : Spreads, foreign_float_spread : Spreads,
     tenor_years : TenorYears, domestic_curve : {"EUR"},
     foreign_curve : {"USD"}, spot_fx : SpotFX,
     evaluation_date : OptionalDates]

IRSArgs ==
    [notional : {Rat(100)}, fixed_rate : FixedRates, tenor_years : TenorYears,
     discount_curve : Curves, swap_type : {"Payer", "Receiver"},
     float_spread : {Zero}, evaluation_date : OptionalDates]

\* build_sample_eur_curve's deposit quotes: 1M 3.80%, 3M 3.75%, 6M 3.65%
SampleEurDeposits ==
    <<make_deposit_helper(Frac(380, 10000), 1),
      make_deposit_helper(Frac(375, 10000), 3),
      make_deposit_helper(Frac(365, 10000), 6)>>

\* build_sample_eur_curve's swap quotes up to two years: 1Y 3.20%, 2Y 3.00%
SampleEurSwaps ==
    <<make_swap_helper(Frac(320, 10000), 1),
      make_swap_helper(Frac(300, 10000), 2)>>

\* deposit quotes of a stressed money market, both rates positive: 12% for
\* one month, 2% for three months
InvertedDeposits ==
    <<make_deposit_helper(Frac(12, 100), 1),
      make_deposit_helper(Frac(2, 100), 3)>>

DepositLists ==
    {NoList, List(<<>>), List(SampleEurDeposits), List(InvertedDeposits)}

SwapLists == {NoList, List(<<>>), List(SampleEurSwaps)}

-----------------------------------------------------------------------------
(* The operations, each one call from the caller's thread                  *)

NoResult == [op |-> "none"]

Idle == result = NoResult

\* what `ql.Settings.instance().evaluationDate = evaluation_date` under
\* `if evaluation_date is not None` leaves in the process-wide date
SetEvaluationDate(evaluation_date, current) ==
    IF evaluation_date # None THEN evaluation_date ELSE current

Returned(op, a, out) == [op |-> op, args |-> a, out |-> out]

build_discount_curve(evaluation_date, deposit_helpers, swap_helpers) ==
    /\ Idle
    /\ evaluationDate' = evaluation_date
    /\ result' = Returned("build_discount_curve",
                          [evaluation_date |-> evaluation_date,
                           deposit_helpers |-> deposit_helpers,
                           swap_helpers |-> swap_helpers],
                          CurveBody(evaluation_date, deposit_helpers,
                                    swap_helpers))
    /\ UNCHANGED <<bond, threads>>

price_bond(discount_curve, evaluation_date) ==
    /\ Idle
    /\ evaluationDate' = SetEvaluationDate(evaluation_date, evaluationDate)
    /\ bond' = [bond EXCEPT !.engine = discount_curve]
    /\ result' = Returned("price_bond",
                          [discount_curve |-> discount_curve,
                           evaluation_date |-> evaluation_date],
                          BondBody(bond, discount_curve, evaluationDate'))
    /\ UNCHANGED threads

price_par_par_asset_swap(a) ==
    /\ Idle
    /\ evaluationDate' = SetEvaluationDate(a.evaluation_date, evaluationDate)
    /\ result' = Returned("price_par_par_asset_swap", a,
                          ParParBody(bond, a.bond_dirty_price,
                                     a.discount_curve, evaluationDate'))
    /\ UNCHANGED <<bond, threads>>

replicate_par_par_asset_swap(a) ==
    /\ Idle
    /\ evaluationDate' = SetEvaluationDate(a.evaluation_date, evaluationDate)
    /\ result' = Returned("replicate_par_par_asset_swap", a,
                          ReplicateBody(bond, a.bond_dirty_price,
                                        a.discount_curve, evaluationDate'))
    /\ UNCHANGED <<bond, threads>>

price_irs(a) ==
    /\ Idle
    /\ evaluationDate' = SetEvaluationDate(a.evaluation_date, evaluationDate)
    /\ result' = Returned("price_irs", a, IRSBody(a, evaluationDate'))
    /\ UNCHANGED <<bond, threads>>

price_fixed_fixed_xccy_swap(a) ==
    /\ Idle
    /\ evaluationDate' = SetEvaluationDate(a.evaluation_date, evaluationDate)
    /\ result' = Returned("price_fixed_fixed_xccy_swap", a,
                          FixedFixedBody(a, evaluationDate'))
    /\ UNCHANGED <<bond, threads>>

price_fixed_floating_xccy_swap(a) ==
    /\ Idle
    /\ evaluationDate' = SetEvaluationDate(a.evaluation_date, evaluationDate)
    /\ result' = Returned("price_fixed_floating_xccy_swap", a,
                          FixedFloatingBody(a, evaluationDate'))
    /\ UNCHANGED <<bond, threads>>

price_float_float_xccy_swap(a) ==
    /\ Idle
    /\ evaluationDate' = SetEvaluationDate(a.evaluation_date, evaluationDate)
    /\ result' = Returned("price_float_float_xccy_swap", a,
                          FloatFloatBody(a, evaluationDate'))
    /\ UNCHANGED <<bond, threads>>

\* the caller is done with the returned value (or the raised error)
Discard ==
    /\ ~Idle
    /\ result' = NoResult
    /\ UNCHANGED <<evaluationDate, bond, threads>>

ThreadIds == {1, 2}

NotStarted == [pc |-> "idle"]

Init ==
    /\ evaluationDate = RefDate
    /\ bond \in Bonds
    /\ result = NoResult
    /\ threads = [t \in ThreadIds |-> NotStarted]

Next ==
    \/ \E d \in EvalDates, dep \in DepositLists, swp \in SwapLists :
          build_discount_curve(d, dep, swp)
    \/ \E c \in Curves, d \in OptionalDates : price_bond(c, d)
    \/ \E a \in AssetSwapArgs : price_par_par_asset_swap(a)
    \/ \E a \in ReplicateArgs : replicate_par_par_asset_swap(a)
    \/ \E a \in IRSArgs : price_irs(a)
    \/ \E a \in FixedFixedArgs : price_fixed_fixed_xccy_swap(a)
    \/ \E a \in FixedFloatingArgs : price_fixed_floating_xccy_swap(a)
    \/ \E a \in FloatFloatArgs : price_float_float_xccy_swap(a)
    \/ Discard

Spec == Init /\ [][Next]_vars

-----------------------------------------------------------------------------
(* Two valuations side by side.  A call is three steps of its thread: the  *)
(* write of the process-wide date (`if evaluation_date is not None: ...`), *)
(* the read of it (`eval_date = ql.Settings.instance().evaluationDate`,    *)
(* or the library's own read under bond.accruedAmount()), and the pricing  *)
(* from the date read.  The interpreter may switch threads between them.   *)

\* what the operation op returns for arguments a and bond b when the
\* process-wide date it reads is eval_date
Valuation(op, a, b, eval_date) ==
    CASE op = "price_bond" -> BondBody(b, a.discount_curve, eval_date)
      [] op = "price_par_par_asset_swap" ->
            ParParBody(b, a.bond_dirty_price, a.discount_curve, eval_date)
      [] op = "replicate_par_par_asset_swap" ->
            ReplicateBody(b, a.bond_dirty_price, a.discount_curve, eval_date)
      [] op = "price_irs" -> IRSBody(a, eval_date)
      [] op = "price_fixed_fixed_xccy_swap" -> FixedFixedBody(a, eval_date)
      [] op = "price_fixed_floating_xccy_swap" ->
            FixedFloatingBody(a, eval_date)
      [] op = "price_float_float_xccy_swap" -> FloatFloatBody(a, eval_date)

\* the calls the threads make, each with an evaluation_date of its own
ThreadCalls ==
    {<<"price_fixed_fixed_xccy_swap", a>> :
        a \in {x \in FixedFixedArgs :
                 /\ x.evaluation_date # None
                 /\ x.domestic_notional # Zero
                 /\ x.domestic_fixed_rate # Zero
                 /\ x.tenor_years = 1
                 /\ x.foreign_curve = "USD"}}
    \cup {<<"price_par_par_asset_swap", a>> :
            a \in {x \in AssetSwapArgs :
                     /\ x.evaluation_date # None
                     /\ x.bond_dirty_price = MarketPrice
                     /\ x.discount_curve = "EUR"}}
    \cup {<<"price_irs", a>> :
            a \in {x \in IRSArgs :
                     /\ x.evaluation_date # None
                     /\ x.fixed_rate # Zero
                     /\ x.tenor_years = 1
                     /\ x.discount_curve = "EUR"
                     /\ x.swap_type = "Payer"}}

Call(t, op, a) ==
    /\ threads[t].pc = "idle"
    /\ threads' = [threads EXCEPT ![t] = [pc |-> "set", op |-> op, args |-> a]]
    /\ UNCHANGED <<evaluationDate, bond, result>>

WriteDate(t) ==
    /\ threads[t].pc = "set"
    /\ evaluationDate' = SetEvaluationDate(threads[t].args.evaluation_date,
                                           evaluationDate)
    /\ threads' = [threads EXCEPT ![t].pc = "read"]
    /\ UNCHANGED <<bond, result>>

ReadDate(t) ==
    /\ threads[t].pc = "read"
    /\ threads' = [threads EXCEPT ![t] =
                      [pc |-> "price", op |-> threads[t].op,
                       args |-> threads[t].args,
                       eval_date |-> evaluationDate]]
    /\ UNCHANGED <<evaluationDate, bond, result>>

Price(t) ==
    /\ threads[t].pc = "price"
    /\ threads' = [threads EXCEPT ![t] =
                      [pc |-> "done", op |-> threads[t].op,
                       args |-> threads[t].args,
                       eval_date |-> threads[t].eval_date,
                       out |-> Valuation(threads[t].op, threads[t].args, bond,
                                         threads[t].eval_date)]]
    /\ UNCHANGED <<evaluationDate, bond, result>>

NextConc ==
    \E t \in ThreadIds :
        \/ \E c \in ThreadCalls : Call(t, c[1], c[2])
        \/ WriteDate(t)
        \/ ReadDate(t)
        \/ Price(t)

SpecConc == Init /\ [][NextConc]_vars

-----------------------------------------------------------------------------
(* Properties.                                                             *)

XccyOps ==
    {"price_fixed_fixed_xccy_swap", "price_fixed_floating_xccy_swap",
     "price_float_float_xccy_swap"}

AssetSwapOps == {"price_par_par_asset_swap", "replicate_par_par_asset_swap"}

\* a call has returned a value (not raised)
Returns(ops) == result.op \in ops /\ ~IsError(result.out)

\* |x| < 10^-k: |n| * 10^k < d iff |n| <= floor((d - 1) / 10^k)
LessThanTol(x, k) == Abs(x[1]) <= DivPow10(x[2] - 1, k)

\* the PV of the domestic leg of an xccy call at a given value of its
\* unknown parameter (the fixed rate, or the floating spread)
DomesticPV(op, a, parameter, effective, maturity) ==
    IF op = "price_float_float_xccy_swap"
    THEN _pv_cashflows(
             _build_floating_leg_cashflows(
                 a.domestic_notional, parameter, effective, maturity,
                 "Euribor6M", "TARGET", a.domestic_curve, TRUE),
             a.domestic_curve, "EUR").pv_total
    ELSE _pv_cashflows(
             _build_fixed_leg_cashflows(
                 a.domestic_notional, parameter, effective, maturity,
                 12, "TARGET", "Thirty360", TRUE),
             a.domestic_curve, "EUR").pv_total

\* the implied annuity the xccy call op divides by
DomesticAnnuityOn(op, a, effective, maturity) ==
    IF op = "price_float_float_xccy_swap"
    THEN FloatFloatAnnuity(
             a, effective, maturity,
             DomesticPV(op, a, a.domestic_float_spread, effective, maturity),
             DomesticPV(op, a, Zero, effective, maturity))
    ELSE ImpliedAnnuity(
             DomesticPV(op, a, a.domestic_fixed_rate, effective, maturity),
             DomesticPV(op, a, Zero, effective, maturity),
             a.domestic_fixed_rate)

DomesticAnnuityFrom(op, a, effective) ==
    DomesticAnnuityOn(op, a, effective,
                      MaturityDate("TARGET", effective, a.tenor_years))

DomesticAnnuity(op, a, eval_date) ==
    DomesticAnnuityFrom(op, a, EffectiveDate("TARGET", eval_date))

\* the call reaches its guarded division with an annuity of at most 1e-10
NearZeroAnnuity(op, a, eval_date) ==
    /\ op \in XccyOps
    /\ a.tenor_years > 0
    /\ op # "price_float_float_xccy_swap" => a.domestic_fixed_rate # Zero
    /\ ~ExceedsTol(DomesticAnnuity(op, a, eval_date), 10)

\* C1: an xccy call whose implied domestic annuity is at most 1e-10 in
\* absolute value signals an error; it returns no result with a defaulted
\* fair_value.
C1_NearZeroAnnuitySignalsError ==
    NearZeroAnnuity(result.op, result.args, evaluationDate)
        => IsError(result.out)

\* the arguments of an xccy call with the unknown domestic parameter set
WithUnknown(op, a, value) ==
    IF op = "price_float_float_xccy_swap"
    THEN [a EXCEPT !.domestic_float_spread = value]
    ELSE [a EXCEPT !.domestic_fixed_rate = value]

\* out is a result whose npv_domestic is within 1e-6 * notional of zero
NpvWithin(out, notional) ==
    /\ ~IsError(out)
    /\ RLe(RAbs(out.npv_domestic), RMul(Frac(1, 1000000), RAbs(notional)))

\* C2: pricing an xccy swap again with the unknown domestic parameter set
\* to the returned fair_value gives |npv_domestic| <= 1e-6 * domestic
\* notional.
C2_FairValuePlugBack ==
    Returns(XccyOps)
        => NpvWithin(Valuation(result.op,
                               WithUnknown(result.op, result.args,
                                           result.out.fair_value),
                               bond, evaluationDate),
                     result.args.domestic_notional)

\* the two derivations' fair spreads are less than 1e-8 apart
SpreadsAgree(structural, replicated) ==
    /\ ~IsError(replicated)
    /\ LessThanTol(RSub(structural.fair_spread, replicated.fair_spread), 8)

\* C3: for any bond, dirty price and curve, the structural fair spread and
\* the replicated fair spread differ by less than 1e-8.
C3_StructuralMatchesReplication ==
    Returns({"price_par_par_asset_swap"})
        => SpreadsAgree(result.out,
                        Valuation("replicate_par_par_asset_swap", result.args,
                                  bond, evaluationDate))

\* C4: no operation writes the process-wide evaluation date.
C4_EvaluationDateNeverWritten == [][evaluationDate' = evaluationDate]_vars

\* C5: a valuation run side by side with another returns exactly what it
\* returns run alone, that is, priced from its own evaluation_date.
C5_ConcurrentValuationsIsolated ==
    \A t \in ThreadIds :
        threads[t].pc = "done"
            => threads[t].out = Valuation(threads[t].op, threads[t].args, bond,
                                          threads[t].args.evaluation_date)

\* C6: a valuation is a function of its arguments only: the call returns
\* what the same call returns when nothing ran before it (the process-wide
\* date still the one the process started with).
C6_ValuationFunctionOfArguments ==
    result.op \in XccyOps \cup AssetSwapOps \cup {"price_bond", "price_irs"}
        => result.out = Valuation(result.op, result.args, bond,
                                  SetEvaluationDate(result.args.evaluation_date,
                                                    RefDate))

\* C7: the bond is never changed by the operations it is passed to.
C7_BondUnchanged == [][bond' = bond]_vars

\* C8: both asset-swap results carry an upfront value equal to
\* 100 - bond_dirty_price.
C8_UpfrontReported ==
    Returns(AssetSwapOps)
        => /\ "upfront" \in DOMAIN result.out
           /\ result.out.upfront = RSub(Rat(100), result.args.bond_dirty_price)

\* the bond cashflows dated strictly after settlement, valued on the curve
\* and carried to settlement
PV_bond(b, discount_curve, settlement) ==
    RDiv(PresentValue(After(bond_cashflows(b), settlement), discount_curve),
         discount(discount_curve, settlement))

\* the sum over the periods of the settlement-to-maturity schedule of
\* yearFraction(start, end) * discount(end) / discount(settlement)
FloatingAnnuity(b, discount_curve, settlement) ==
    RDiv(Annuity(Periods(Schedule(settlement, bond_maturityDate(b), 6,
                                  "TARGET")),
                 Rat(1), "Actual360", discount_curve),
         discount(discount_curve, settlement))

ReplicationFormula(b, dirty_price, discount_curve, settlement) ==
    RDiv(RSub(PV_bond(b, discount_curve, settlement), dirty_price),
         RMul(bond_notional(b), FloatingAnnuity(b, discount_curve, settlement)))

\* C9: replicate_par_par_asset_swap returns
\* fair_spread = (PV_bond - dirty price) / (face * A), PV_bond over exactly
\* the cashflows dated strictly after settlement and carried to settlement,
\* A the annuity of the settlement-to-maturity schedule.
C9_ReplicationFormula ==
    Returns({"replicate_par_par_asset_swap"})
        => result.out.fair_spread
             = ReplicationFormula(bond, result.args.bond_dirty_price,
                                  result.args.discount_curve,
                                  bond_settlementDate(bond, evaluationDate))

\* a replication has returned for a settlement date on which the bond pays
\* a coupon (the cashflow the strict comparison leaves out)
C9_Witness ==
    /\ Returns({"replicate_par_par_asset_swap"})
    /\ \E i \in DOMAIN bond_cashflows(bond) :
          bond_cashflows(bond)[i].date
            = bond_settlementDate(bond, evaluationDate)
    /\ discount(result.args.discount_curve,
                bond_settlementDate(bond, evaluationDate)) # Rat(1)

\* C10: with the bond and the curve fixed, the spread at a higher dirty
\* price of the bump grid is strictly below the spread at a lower one, in
\* both derivations.
C10_SpreadDecreasingInPrice ==
    Returns(AssetSwapOps)
        => \A q \in DirtyPrices :
              RLt(result.args.bond_dirty_price, q)
                  => /\ ~IsError(Valuation(result.op,
                                           [result.args EXCEPT
                                               !.bond_dirty_price = q],
                                           bond, evaluationDate))
                     /\ RLt(Valuation(result.op,
                                      [result.args EXCEPT
                                          !.bond_dirty_price = q],
                                      bond, evaluationDate).fair_spread,
                            result.out.fair_spread)

\* a replication has returned at the lowest price of the grid, every other
\* price of the grid above it
C10_Witness ==
    /\ Returns({"replicate_par_par_asset_swap"})
    /\ result.args.bond_dirty_price = RAdd(MarketPrice, Rat(-2))
    /\ \E q \in DirtyPrices : RLt(result.args.bond_dirty_price, q)

-----------------------------------------------------------------------------
(* The interest-rate swap                                                  *)

\* the fixed leg's value and annuity and the floating leg's value, each
\* unsigned, of the swap of call a between the dates
FixedLegPV(a, effective, maturity) ==
    RSum([i \in 1..Len(Periods(Schedule(effective, maturity, 12, "TARGET"))) |->
            RMul(RMul(RMul(a.notional, a.fixed_rate),
                      YearFraction("Thirty360",
                          Periods(Schedule(effective, maturity, 12,
                                           "TARGET"))[i][1],
                          Periods(Schedule(effective, maturity, 12,
                                           "TARGET"))[i][2])),
                 discount(a.discount_curve,
                          Periods(Schedule(effective, maturity, 12,
                                           "TARGET"))[i][2]))])

FixedLegAnnuity(a, effective, maturity) ==
    RSum([i \in 1..Len(Periods(Schedule(effective, maturity, 12, "TARGET"))) |->
            RMul(RMul(a.notional,
                      YearFraction("Thirty360",
                          Periods(Schedule(effective, maturity, 12,
                                           "TARGET"))[i][1],
                          Periods(Schedule(effective, maturity, 12,
                                           "TARGET"))[i][2])),
                 discount(a.discount_curve,
                          Periods(Schedule(effective, maturity, 12,
                                           "TARGET"))[i][2]))])

FloatingLegPV(a, effective, maturity) ==
    LegPV(_build_floating_leg_cashflows(
              a.notional, a.float_spread, effective, maturity, "Euribor6M",
              "TARGET", a.discount_curve, FALSE),
          a.discount_curve)

\* the dates of the swap a call made on the current evaluation date builds
IRSEffective == EffectiveDate("TARGET", evaluationDate)

IRSMaturity(a) == MaturityDate("TARGET", IRSEffective, a.tenor_years)

\* C13: pricing the IRS again with fixed_rate set to the returned
\* fair_rate, the other inputs unchanged, gives |npv| <= 1e-6 * notional.
C13_FairRatePlugBack ==
    Returns({"price_irs"})
        => /\ ~IsError(IRSBody([result.args EXCEPT
                                   !.fixed_rate = result.out.fair_rate],
                               evaluationDate))
           /\ RLe(RAbs(IRSBody([result.args EXCEPT
                                   !.fixed_rate = result.out.fair_rate],
                               evaluationDate).npv),
                  RMul(Frac(1, 1000000), RAbs(result.args.notional)))

\* an IRS has returned with an npv of more than 1e-6 * notional, so that
\* the plug-back is a call at another fixed rate
C13_Witness ==
    /\ Returns({"price_irs"})
    /\ result.out.fair_rate # result.args.fixed_rate
    /\ ~RLe(RAbs(result.out.npv),
            RMul(Frac(1, 1000000), RAbs(result.args.notional)))

\* C14: fair_rate = floating-leg PV / fixed-leg annuity, the annuity being
\* notional * sum of yearFraction * discount(payment date) over the fixed
\* periods, and |fixed_leg_bps| = annuity * 1e-4.
C14_FairRateIsFloatingOverAnnuity ==
    Returns({"price_irs"})
        => /\ result.out.fair_rate
                = RDiv(FloatingLegPV(result.args, IRSEffective,
                                     IRSMaturity(result.args)),
                       FixedLegAnnuity(result.args, IRSEffective,
                                       IRSMaturity(result.args)))
           /\ RAbs(result.out.fixed_leg_bps)
                = RMul(FixedLegAnnuity(result.args, IRSEffective,
                                       IRSMaturity(result.args)),
                       Frac(1, 10000))

\* an IRS of more than one fixed period has returned on a curve whose
\* discount factor differs between the start and the end of a period
C14_Witness ==
    /\ Returns({"price_irs"})
    /\ result.args.tenor_years >= 2
    /\ discount(result.args.discount_curve, IRSEffective)
         # discount(result.args.discount_curve, IRSMaturity(result.args))

\* the other swap type
OtherType(swap_type) == IF swap_type = "Payer" THEN "Receiver" ELSE "Payer"

-----------------------------------------------------------------------------
(* The cross-currency legs                                                 *)

\* the value of a leg's reported cashflows on a curve
LegDetailPV(detail, discount_curve) ==
    RSum([i \in 1..Len(detail.dates) |->
            RMul(detail.amounts[i], discount(discount_curve, detail.dates[i]))])

\* C16: in the three xccy pricers each leg is valued on its own currency's
\* curve, npv_domestic = foreign_leg_pv * spot_fx - domestic_leg_pv,
\* foreign_leg_pv_in_domestic = foreign_leg_pv * spot_fx and
\* npv_foreign * spot_fx = npv_domestic.
C16_LegsOnOwnCurves ==
    Returns(XccyOps)
        => /\ result.out.domestic_leg_pv
                = LegDetailPV(result.out.domestic_leg_detail,
                              result.args.domestic_curve)
           /\ result.out.foreign_leg_pv
                = LegDetailPV(result.out.foreign_leg_detail,
                              result.args.foreign_curve)
           /\ result.out.npv_domestic
                = RSub(RMul(result.out.foreign_leg_pv, result.args.spot_fx),
                       result.out.domestic_leg_pv)
           /\ result.out.foreign_leg_pv_in_domestic
                = RMul(result.out.foreign_leg_pv, result.args.spot_fx)
           /\ RMul(result.out.npv_foreign, result.args.spot_fx)
                = result.out.npv_domestic

\* an xccy call has returned whose legs are on different curves, the
\* foreign leg worth another amount on the domestic curve, and whose npv is
\* not zero
C16_Witness ==
    /\ Returns(XccyOps)
    /\ result.args.foreign_curve # result.args.domestic_curve
    /\ LegDetailPV(result.out.foreign_leg_detail, result.args.domestic_curve)
         # result.out.foreign_leg_pv
    /\ result.out.npv_domestic # Zero

-----------------------------------------------------------------------------
(* The replicated asset swap on a degenerate annuity                       *)

ReplicateReturned == result.op = "replicate_par_par_asset_swap"

\* the floating annuity of the replication just asked for: the sum of
\* tau * df_end over the 6-month schedule from settlement to maturity (no
\* period when settlement is on or after maturity)
ReplicateAnnuity ==
    LET settlement == bond_settlementDate(bond, evaluationDate)
        fp_details ==
            FloatingPeriods(
                Periods(Schedule(settlement, bond_maturityDate(bond), 6,
                                 "TARGET")),
                result.args.discount_curve,
                discount(result.args.discount_curve, settlement))
    IN  RSum([i \in 1..Len(fp_details) |-> fp_details[i].contribution])

\* |annuity| <= 10^-9
NearZero(x) == ~ExceedsTol(x, 9)

\* C11: when the floating annuity of the solve is zero or near zero,
\* replicate_par_par_asset_swap returns no spread and signals the degenerate
\* input with an error of its own, not by carrying out the division by
\* face * annuity.
C11_DegenerateAnnuitySignalled ==
    (ReplicateReturned /\ NearZero(ReplicateAnnuity))
        => /\ IsError(result.out)
           /\ result.out # Raise("ZeroDivisionError")

-----------------------------------------------------------------------------
(* The discount curve                                                      *)

BuildReturned == result.op = "build_discount_curve"

CurveReturned == BuildReturned /\ ~IsError(result.out)

\* C17: build_discount_curve raises ValueError (the code's configuration
\* error) and returns no curve whenever deposit_helpers and swap_helpers
\* are each None or an empty list.
C17_EmptyHelpersRefused ==
    (/\ BuildReturned
     /\ result.args.deposit_helpers.items = <<>>
     /\ result.args.swap_helpers.items = <<>>)
        => result.out = Raise("ValueError")

\* build_discount_curve was called with one list omitted and the other
\* empty, and has raised
C17_Witness ==
    /\ BuildReturned
    /\ result.args.deposit_helpers = List(<<>>)
    /\ result.args.swap_helpers = NoList
    /\ result.out = Raise("ValueError")

\* C18: on every curve returned by build_discount_curve, the discount
\* factor at the evaluation date given to the build is exactly 1.
C18_DiscountOneAtEvaluationDate ==
    CurveReturned
        => CurveDiscount(result.out, result.args.evaluation_date,
                         evaluationDate) = Rat(1)

\* a curve was built from the sample EUR quotes, whose helpers start two
\* business days after the evaluation date, and discounts that start date
\* below 1
C18_Witness ==
    /\ CurveReturned
    /\ result.args.deposit_helpers = List(SampleEurDeposits)
    /\ result.args.swap_helpers = List(SampleEurSwaps)
    /\ HelperSpot(evaluationDate) > result.args.evaluation_date
    /\ RLt(CurveDiscount(result.out, HelperSpot(evaluationDate),
                         evaluationDate), Rat(1))

\* the returned curve's helpers in pillar order, and its nodes: the
\* reference date, then one node per helper
ReturnedHelpers == SortByPillar(result.out.helpers)

ReturnedNodes == CurveNodes(result.out, evaluationDate)

PositiveQuotes == \A k \in 1..Len(ReturnedHelpers) : ReturnedHelpers[k].rate[1] > 0

\* Two dates of one curve compare as their node values do: curve.discount
\* divides both by the same positive value.
\* the discount factor does not rise from node k to node k + 1
NotRising(nodes, k) == RLe(nodes[k + 1].df, nodes[k].df)

Falling(nodes, k) == RLt(nodes[k + 1].df, nodes[k].df)

\* a deposit's simple interest to maturity: rate * yearFraction(spot, pillar)
DepositInterest(h, eval_date) ==
    RMul(h.rate,
         YearFraction("Actual360", HelperSpot(eval_date),
                      HelperPillar(h, eval_date)))

BothDeposits(k) ==
    /\ ReturnedHelpers[k].kind = "deposit"
    /\ ReturnedHelpers[k + 1].kind = "deposit"

FromSampleEurQuotes == result.out.helpers = SampleEurDeposits \o SampleEurSwaps

-----------------------------------------------------------------------------
(* Swaps that do not end after they start                                  *)

SwapOps == {"price_irs"} \cup XccyOps

SwapReturned == result.op \in SwapOps

\* the start and end dates the returned swap was priced with
ReturnedEffective == EffectiveDate("TARGET", evaluationDate)

ReturnedMaturity == MaturityDate("TARGET", ReturnedEffective, result.args.tenor_years)

StrictlyIncreasing(s) == \A i \in 1..(Len(s) - 1) : s[i] < s[i + 1]

\* the schedules of the legs of the returned swap: annual and semi-annual
\* on TARGET, semi-annual and quarterly on the US calendar
ReturnedSchedules == {Schedule(ReturnedEffective, ReturnedMaturity, m, "TARGET") : m \in {6, 12}} \cup {Schedule(ReturnedEffective, ReturnedMaturity, m, "US") : m \in {3, 6}}

\* C21: an IRS or a cross-currency swap whose maturity date is not after
\* its effective date (tenor_years <= 0) fails with the library's error and
\* returns no result, and every swap that is priced has legs whose
\* schedules are strictly increasing and have at least one period.
C21_NonPositiveTenorRefused ==
    SwapReturned
        => /\ (result.args.tenor_years <= 0 \/ ReturnedMaturity <= ReturnedEffective)
                  => result.out = Raise("RuntimeError")
           /\ ~IsError(result.out)
                  => \A s \in ReturnedSchedules : Len(s) >= 2 /\ StrictlyIncreasing(s)

\* a swap of tenor 0 was priced: its maturity date is its effective date
\* and the call has raised
C21_Witness ==
    /\ SwapReturned
    /\ result.args.tenor_years = 0
    /\ ReturnedMaturity = ReturnedEffective
    /\ result.out = Raise("RuntimeError")

-----------------------------------------------------------------------------
(* Clean and dirty prices                                                  *)

BondReturned == result.op = "price_bond"

ParParReturned == result.op = "price_par_par_asset_swap" /\ ~IsError(result.out)

\* the settlement date of the bond on the evaluation date now in force
SettlementNow == bond_settlementDate(bond, evaluationDate)

\* the bond's cashflows paid after settlement
FutureCashflows == After(bond_cashflows(bond), SettlementNow)

\* the sum over the future cashflows of scale * amount * discount(date) /
\* discount(settlement) on the curve the call was given
SettlementValue(scale) == RSum([i \in 1..Len(FutureCashflows) |-> RDiv(RMul(RMul(scale, FutureCashflows[i].amount), discount(result.args.discount_curve, FutureCashflows[i].date)), discount(result.args.discount_curve, SettlementNow))])

\* C22 as stated: for every bond and curve price_bond returns dirty_price =
\* clean_price + accrued_interest and a clean price equal to the sum over
\* the cashflows after settlement of amount * discount(date) /
\* discount(settlement), less the accrued interest; and
\* price_par_par_asset_swap turns the dirty price into the clean one so.
C22_CleanIsSettlementValueLessAccrued ==
    /\ BondReturned
          => /\ result.out.dirty_price = RAdd(result.out.clean_price, result.out.accrued_interest)
             /\ result.out.clean_price = RSub(SettlementValue(Rat(1)), result.out.accrued_interest)
    /\ ParParReturned
          => /\ result.out.bond_dirty_price = result.args.bond_dirty_price
             /\ result.out.bond_dirty_price = RAdd(result.out.bond_clean_price, bond_accruedAmount(bond, evaluationDate))

\* C22 amended: the same, the amounts being taken per 100 of face value,
\* as the prices and the accrued interest are.
C22_CleanIsSettlementValuePer100LessAccrued ==
    /\ BondReturned
          => /\ result.out.dirty_price = RAdd(result.out.clean_price, result.out.accrued_interest)
             /\ result.out.clean_price = RSub(SettlementValue(RDiv(Rat(100), bond_notional(bond))), result.out.accrued_interest)
    /\ ParParReturned
          => /\ result.out.bond_dirty_price = result.args.bond_dirty_price
             /\ result.out.bond_dirty_price = RAdd(result.out.bond_clean_price, bond_accruedAmount(bond, evaluationDate))

\* a bond of face 200 was priced between two coupon dates: interest has
\* accrued, and the clean price is not the value of the cashflows as paid
C22_Witness ==
    /\ BondReturned
    /\ bond_notional(bond) = Rat(200)
    /\ RLt(Zero, result.out.accrued_interest)
    /\ result.out.clean_price # RSub(SettlementValue(Rat(1)), result.out.accrued_interest)

-----------------------------------------------------------------------------
(* The legs of the cross-currency swaps                                    *)

XccyReturned == Returns(XccyOps)

DomesticFloats == result.op = "price_float_float_xccy_swap"

ForeignFloats == result.op # "price_fixed_fixed_xccy_swap"

\* the cashflows a leg detail lists: <<date, amount>> pairs
DetailCashflows(detail) == [i \in 1..Len(detail.dates) |-> <<detail.dates[i], detail.amounts[i]>>]

\* the domestic (paid) and the foreign (received) leg of the returned swap,
\* as the builders give them with and without the notional exchange
ReturnedDomesticLeg(exchange) == IF DomesticFloats THEN _build_floating_leg_cashflows(result.args.domestic_notional, result.args.domestic_float_spread, ReturnedEffective, ReturnedMaturity, "Euribor6M", "TARGET", result.args.domestic_curve, exchange) ELSE _build_fixed_leg_cashflows(result.args.domestic_notional, result.args.domestic_fixed_rate, ReturnedEffective, ReturnedMaturity, 12, "TARGET", "Thirty360", exchange)

ReturnedForeignLeg(exchange) == IF ForeignFloats THEN _build_floating_leg_cashflows(result.args.foreign_notional, result.args.foreign_float_spread, ReturnedEffective, ReturnedMaturity, "USDLibor3M", "US", result.args.foreign_curve, exchange) ELSE _build_fixed_leg_cashflows(result.args.foreign_notional, result.args.foreign_fixed_rate, ReturnedEffective, ReturnedMaturity, 6, "US", "Thirty360", exchange)

\* the coupon periods of the two legs
ReturnedDomesticPeriods == Periods(Schedule(ReturnedEffective, ReturnedMaturity, IF DomesticFloats THEN 6 ELSE 12, "TARGET"))

ReturnedForeignPeriods == Periods(Schedule(ReturnedEffective, ReturnedMaturity, IF ForeignFloats THEN 3 ELSE 6, "US"))

\* the leg opens with first at the effective date and closes with last at
\* maturity
ExchangesNotional(leg, first, last) == leg[1] = <<ReturnedEffective, first>> /\ leg[Len(leg)] = <<ReturnedMaturity, last>>

\* the leg is its coupons and nothing else: one entry per period, paid at
\* the period's end
CouponsOnly(leg, P) == Len(leg) = Len(P) /\ \A i \in 1..Len(P) : leg[i][1] = P[i][2]

\* what the legs built with and without the exchange have in common
LegsBuiltAsReturned ==
    /\ ReturnedDomesticLeg(TRUE) = DetailCashflows(result.out.domestic_leg_detail)
    /\ ReturnedForeignLeg(TRUE) = DetailCashflows(result.out.foreign_leg_detail)
    /\ CouponsOnly(ReturnedDomesticLeg(FALSE), ReturnedDomesticPeriods)
    /\ CouponsOnly(ReturnedForeignLeg(FALSE), ReturnedForeignPeriods)
    /\ ReturnedDomesticLeg(FALSE) = SubSeq(ReturnedDomesticLeg(TRUE), 2, Len(ReturnedDomesticLeg(TRUE)) - 1)
    /\ ReturnedForeignLeg(FALSE) = SubSeq(ReturnedForeignLeg(TRUE), 2, Len(ReturnedForeignLeg(TRUE)) - 1)

\* C24 as stated: a leg built with notional exchange carries the notional
\* entries with the sign of its direction: the paid (domestic) leg has
\* -notional at the effective date and +notional at maturity, the received
\* (foreign) leg the opposite; a leg built without the exchange carries no
\* notional entry.
C24_NotionalSignsByDirection ==
    XccyReturned
        => /\ LegsBuiltAsReturned
           /\ ExchangesNotional(ReturnedDomesticLeg(TRUE), RNeg(result.args.domestic_notional), result.args.domestic_notional)
           /\ ExchangesNotional(ReturnedForeignLeg(TRUE), result.args.foreign_notional, RNeg(result.args.foreign_notional))

\* C24 amended: a leg built with notional exchange carries -notional at the
\* effective date and +notional at maturity whatever its direction, the
\* paid and the received leg alike; a leg built without the exchange carries
\* no notional entry.
C24_NotionalSignsSameOnBothLegs ==
    XccyReturned
        => /\ LegsBuiltAsReturned
           /\ ExchangesNotional(ReturnedDomesticLeg(TRUE), RNeg(result.args.domestic_notional), result.args.domestic_notional)
           /\ ExchangesNotional(ReturnedForeignLeg(TRUE), RNeg(result.args.foreign_notional), result.args.foreign_notional)

\* a swap with notionals on both sides was priced: the received leg opens
\* with a negative entry and closes with a positive one, as the paid leg
C24_Witness ==
    /\ XccyReturned
    /\ RLt(Zero, result.args.domestic_notional)
    /\ RLt(result.out.foreign_leg_detail.amounts[1], Zero)
    /\ RLt(Zero, Last(result.out.foreign_leg_detail.amounts))
    /\ RLt(result.out.domestic_leg_detail.amounts[1], Zero)
    /\ Len(ReturnedForeignLeg(FALSE)) = Len(result.out.foreign_leg_detail.amounts) - 2

-----------------------------------------------------------------------------
(* Floating coupons                                                        *)

\* the simple-compounding forward of a curve over [start, end], tau being
\* the year fraction of the period
SimpleForward(curve, start, end, tau) == RDiv(RSub(RDiv(discount(curve, start), discount(curve, end)), Rat(1)), tau)

\* notional * (forward + spread) * tau on the index day count, Actual/360
StatedCoupon(notional, spread, curve, start, end) == RMul(RMul(notional, RAdd(SimpleForward(curve, start, end, Frac(end - start, 360)), spread)), Frac(end - start, 360))

\* between its two notional entries the leg lists one coupon per period,
\* paid at the period's end, of the stated amount
FloatingCouponsAsStated(detail, P, notional, spread, curve) ==
    /\ Len(detail.dates) = Len(P) + 2
    /\ \A i \in 1..Len(P) :
           /\ detail.dates[i + 1] = P[i][2]
           /\ detail.amounts[i + 1] = StatedCoupon(notional, spread, curve, P[i][1], P[i][2])

\* C25: every floating coupon built for a period [start, end] is
\* notional * (forward + spread) * tau, paid at end, tau being
\* yearFraction(start, end) on the index day count and forward the simple
\* forward of the leg's own curve, (discount(start) / discount(end) - 1) / tau.
C25_FloatingCouponIsForwardPlusSpread ==
    XccyReturned
        => /\ ForeignFloats
                 => FloatingCouponsAsStated(result.out.foreign_leg_detail, ReturnedForeignPeriods, result.args.foreign_notional, result.args.foreign_float_spread, result.args.foreign_curve)
           /\ DomesticFloats
                 => FloatingCouponsAsStated(result.out.domestic_leg_detail, ReturnedDomesticPeriods, result.args.domestic_notional, result.args.domestic_float_spread, result.args.domestic_curve)

\* a float-float swap of two years was priced with a spread on both legs:
\* the foreign leg has eight quarterly coupons, the domestic leg four
\* semi-annual ones, and the first coupon of each is not zero
C25_Witness ==
    /\ XccyReturned
    /\ DomesticFloats
    /\ result.args.tenor_years = 2
    /\ result.args.domestic_float_spread # Zero
    /\ result.args.foreign_float_spread # Zero
    /\ Len(ReturnedForeignPeriods) = 8
    /\ Len(ReturnedDomesticPeriods) = 4
    /\ result.out.foreign_leg_detail.amounts[2] # Zero
    /\ result.out.domestic_leg_detail.amounts[2] # Zero

-----------------------------------------------------------------------------
(* The annuity behind the fair value                                       *)

FixedDomesticReturned == Returns({"price_fixed_fixed_xccy_swap", "price_fixed_floating_xccy_swap"})

\* notional times the sum over the periods of yearFraction * discount(end)
StatedAnnuity(P, notional, day_count, curve) == RMul(notional, RSum([i \in 1..Len(P) |-> RMul(YearFraction(day_count, P[i][1], P[i][2]), discount(curve, P[i][2]))]))

\* the domestic leg with the unknown (the fixed rate, or the floating
\* spread) forced to zero, and its value PV(0)
DomesticLegAtZero == IF DomesticFloats THEN _build_floating_leg_cashflows(result.args.domestic_notional, Zero, ReturnedEffective, ReturnedMaturity, "Euribor6M", "TARGET", result.args.domestic_curve, TRUE) ELSE _build_fixed_leg_cashflows(result.args.domestic_notional, Zero, ReturnedEffective, ReturnedMaturity, 12, "TARGET", "Thirty360", TRUE)

PVAtZero == LegPV(DomesticLegAtZero, result.args.domestic_curve)

\* the annuity by direct summation over the domestic coupon periods
DirectAnnuity == StatedAnnuity(ReturnedDomesticPeriods, result.args.domestic_notional, IF DomesticFloats THEN "Actual360" ELSE "Thirty360", result.args.domestic_curve)

\* the same call with another domestic fixed rate
RepricedAtRate(r) == IF result.op = "price_fixed_fixed_xccy_swap" THEN FixedFixedBody([result.args EXCEPT !.domestic_fixed_rate = r], evaluationDate) ELSE FixedFloatingBody([result.args EXCEPT !.domestic_fixed_rate = r], evaluationDate)

OtherRates == {Frac(1, 20), Frac(-1, 100)}

\* C26: in the fixed-fixed and fixed-floating pricers the implied annuity
\* (PV(actual) - PV(0)) / domestic_fixed_rate equals notional times the sum
\* over the domestic coupon periods of yearFraction * discount(payment
\* date) for every nonzero rate, so that the fair value returned is
\* (foreign PV in domestic - PV(0)) / annuity and is the same whatever
\* nonzero domestic_fixed_rate is supplied.
C26_ImpliedAnnuityIsDirectSum ==
    FixedDomesticReturned
        => /\ RDiv(RSub(result.out.domestic_leg_pv, PVAtZero), result.args.domestic_fixed_rate) = DirectAnnuity
           /\ DirectAnnuity # Zero
                 => result.out.fair_value = RDiv(RSub(result.out.foreign_leg_pv_in_domestic, PVAtZero), DirectAnnuity)
           /\ \A r \in OtherRates : RepricedAtRate(r).fair_value = result.out.fair_value

\* a fixed-rate cross-currency swap was priced at 3% on a notional of 100:
\* the annuity is positive and the fair rate is neither 0 nor the 3%
\* supplied
C26_Witness ==
    /\ FixedDomesticReturned
    /\ result.args.domestic_fixed_rate = Frac(3, 100)
    /\ RLt(Zero, DirectAnnuity)
    /\ result.out.fair_value # Zero
    /\ result.out.fair_value # result.args.domestic_fixed_rate

-----------------------------------------------------------------------------
(* The annuity behind the fair basis                                       *)

FloatFloatReturned == Returns({"price_float_float_xccy_swap"})

\* the same call with another domestic spread
RepricedAtSpread(sp) == FloatFloatBody([result.args EXCEPT !.domestic_float_spread = sp], evaluationDate)

OtherSpreads == {Zero, Frac(1, 400)}

-----------------------------------------------------------------------------
(* A domestic fixed rate of zero                                           *)

FixedDomesticCalled == result.op \in {"price_fixed_fixed_xccy_swap", "price_fixed_floating_xccy_swap"}

\* C28: the fixed-fixed and fixed-floating pricers called with a
\* domestic_fixed_rate of 0 (and a swap that ends after it starts) complete
\* and return the fair domestic rate, the value a nonzero supplied rate
\* gives; they do not fail on a division by the supplied rate.
C28_ZeroRateCompletes ==
    (/\ FixedDomesticCalled
     /\ result.args.domestic_fixed_rate = Zero
     /\ ReturnedEffective < ReturnedMaturity)
        => /\ ~IsError(result.out)
           /\ result.out.fair_value = RepricedAtRate(Frac(3, 100)).fair_value

-----------------------------------------------------------------------------
(* The dates of the notional entries                                       *)

ReturnedDomesticSchedule == Schedule(ReturnedEffective, ReturnedMaturity, IF DomesticFloats THEN 6 ELSE 12, "TARGET")

ReturnedForeignSchedule == Schedule(ReturnedEffective, ReturnedMaturity, IF ForeignFloats THEN 3 ELSE 6, "US")

\* the leg's first entry is dated on the first date of the schedule, its
\* last entry on the last date, which is the date of its last coupon
EntriesOnSchedule(detail, schedule) ==
    /\ detail.dates[1] = schedule[1]
    /\ Last(detail.dates) = Last(schedule)
    /\ Last(detail.dates) = detail.dates[Len(detail.dates) - 1]

\* C29: in every cross-currency leg built with notional exchange the
\* initial notional entry is dated on the first date of that leg's coupon
\* schedule and the final one on the date of its last coupon, the foreign
\* leg included, whose schedule is adjusted on the foreign calendar while
\* the effective and maturity dates come from the domestic calendar.
C29_NotionalEntriesOnScheduleDates ==
    XccyReturned
        => /\ EntriesOnSchedule(result.out.domestic_leg_detail, ReturnedDomesticSchedule)
           /\ EntriesOnSchedule(result.out.foreign_leg_detail, ReturnedForeignSchedule)

-----------------------------------------------------------------------------
(* A floating leg at a spread of zero                                      *)

\* the value of the leg's coupons alone, its first and last entries (the
\* notional exchange) left out
CouponsPV(leg, curve) == LegPV(SubSeq(leg, 2, Len(leg) - 1), curve)

\* the coupons are worth notional * (discount(effective) -
\* discount(maturity)) and the whole leg is worth nothing
SpreadZeroLegBalanced(leg, curve, notional) ==
    /\ CouponsPV(leg, curve) = RMul(notional, RSub(discount(curve, ReturnedEffective), discount(curve, ReturnedMaturity)))
    /\ LegPV(leg, curve) = Zero

\* C30: a floating leg built with spread 0 and notional exchange, valued on
\* the curve that projects it, has total PV zero for every curve with
\* positive discount factors and every schedule: its coupons are worth
\* notional * (discount(effective) - discount(maturity)) and cancel the two
\* notional entries.
C30_SpreadZeroFloatingLegWorthNothing ==
    XccyReturned
        => /\ DomesticFloats
                 => SpreadZeroLegBalanced(DomesticLegAtZero, result.args.domestic_curve, result.args.domestic_notional)
           /\ (ForeignFloats /\ result.args.foreign_float_spread = Zero)
                 => /\ SpreadZeroLegBalanced(ReturnedForeignLeg(TRUE), result.args.foreign_curve, result.args.foreign_notional)
                    /\ result.out.foreign_leg_pv = Zero

====
